---- MODULE Spec2Model ----
(***************************************************************************)
(* A model of wsh, the Wisconsin shell (src/src/wsh.c and                  *)
(* src/src/dynamic_array.c): the per-line dispatcher execute_command, the  *)
(* tokenizer parseline_no_subst, the builtin handlers, the path resolver,  *)
(* the pipeline orchestrator execute_pipeline and the two main loops.      *)
(*                                                                         *)
(* C strings are TLA+ strings; a character is a string of length one.      *)
(* The operating system (fork, pipe, waitpid, the programs found on the    *)
(* file system, signals) is the environment: its outcomes are chosen       *)
(* nondeterministically.                                                   *)
(***************************************************************************)
EXTENDS Integers, Sequences, FiniteSets, TLC

(***************************************************************************)
(* Bounds of the exploration                                               *)
(***************************************************************************)
\* number of input lines read in one run
MaxLines == 2
\* number of failing system calls / stray signals in one run
MaxFaults == 1

(***************************************************************************)
(* Program constants                                                       *)
(***************************************************************************)
EXIT_SUCCESS == 0
EXIT_FAILURE == 1
\* size of the argument vectors and of the segment table (include/wsh.h)
MAX_ARGS == 4

(***************************************************************************)
(* C string helpers                                                        *)
(***************************************************************************)
\* s[i], 1-based; the terminating NUL is the empty string
Ch(s, i) == IF i >= 1 /\ i <= Len(s) THEN SubSeq(s, i, i) ELSE ""

\* the characters of s from position i to the end
From(s, i) == IF i > Len(s) THEN "" ELSE SubSeq(s, i, Len(s))

\* strchr: position of the first c in s at or after position i, 0 if none
RECURSIVE strchr(_, _, _)
strchr(s, i, c) ==
  IF i > Len(s) THEN 0
  ELSE IF Ch(s, i) = c THEN i
  ELSE strchr(s, i + 1, c)

\* position of the first character at or after i that is not a space
RECURSIVE SkipSpaces(_, _)
SkipSpaces(s, i) ==
  IF i <= Len(s) /\ Ch(s, i) = " " THEN SkipSpaces(s, i + 1) ELSE i

\* strspn(s, " \t"): length of the leading run of spaces and tabs
RECURSIVE strspn_blank(_, _)
strspn_blank(s, i) ==
  IF i <= Len(s) /\ Ch(s, i) \in {" ", "\t"}
  THEN strspn_blank(s, i + 1) ELSE i - 1

\* s without one trailing newline
Chomp(s) ==
  IF Len(s) > 0 /\ Ch(s, Len(s)) = "\n" THEN SubSeq(s, 1, Len(s) - 1) ELSE s

(***************************************************************************)
(* Tokenizer                                                               *)
(***************************************************************************)
\* the buffer the tokenizer works on: trailing newline replaced by a space,
\* or a space appended
ParseBuf(cmdline) ==
  IF Len(cmdline) > 0 /\ Ch(cmdline, Len(cmdline)) = "\n"
  THEN SubSeq(cmdline, 1, Len(cmdline) - 1) \o " "
  ELSE cmdline \o " "

\* the token loop: p is the read position, toks the tokens stored so far;
\* top is the highest index of argv[] (counted from 0) that has been written
RECURSIVE ParseLoop(_, _, _)
ParseLoop(buf, p, toks) ==
  IF p > Len(buf) THEN [argv |-> toks, warn |-> FALSE, top |-> Len(toks)]
  ELSE IF Ch(buf, p) = "'"
  THEN LET q == strchr(buf, p + 1, "'")
       IN IF q = 0
          THEN [argv |-> << >>, warn |-> TRUE,
                top |-> IF Len(toks) = 0 THEN 0 ELSE Len(toks) - 1]
          ELSE ParseLoop(buf, SkipSpaces(buf, q + 1),
                         Append(toks, SubSeq(buf, p + 1, q - 1)))
  ELSE LET q == strchr(buf, p, " ")
       IN IF q = 0
          THEN [argv |-> toks, warn |-> FALSE, top |-> Len(toks)]
          ELSE ParseLoop(buf, SkipSpaces(buf, q + 1),
                         Append(toks, SubSeq(buf, p, q - 1)))

\* what parseline_no_subst hands back: argv, argc, whether the missing-quote
\* diagnostic was reported (wsh_warn), and whether a token or the sentinel
\* was stored past the MAX_ARGS+1 slots the callers provide
ParseResult(r) ==
  [argv |-> r.argv, argc |-> Len(r.argv), warn |-> r.warn,
   oob |-> r.top > MAX_ARGS]

parseline_no_subst(cmdline) ==
  ParseResult(ParseLoop(ParseBuf(cmdline), SkipSpaces(ParseBuf(cmdline), 1),
                        << >>))

(***************************************************************************)
(* Environment: the file system and the process environment                *)
(***************************************************************************)
\* regular files with execute permission
ExecFiles ==
  {"/bin/true", "/bin/false", "/bin/ls", "/usr/bin/ls", "/bin/echo", "/home/run",
   "/usr/bin/cd", "/bin/.tool"}
\* directories (a directory passes access(X_OK) but cannot be executed)
Dirs == {"/bin", "/usr/bin", "/home"}
\* exit statuses a program can terminate with when it runs to completion
ProgramExit(path) ==
  IF path \in {"/bin/true", "/bin/echo"} THEN {0}
  ELSE IF path = "/bin/false" THEN {1}
  ELSE {0, 2}
\* the value of HOME and the directory the shell is started in
HOME == "/home"
StartDir == "/home"
\* PATH as main sets it at startup
DefaultPath == "/bin:/usr/bin"

\* the absolute name of path p seen from directory cwd
AbsPath(cwd, p) ==
  IF Ch(p, 1) = "/" THEN p
  ELSE IF Ch(p, 1) = "." /\ Ch(p, 2) = "/" THEN cwd \o "/" \o From(p, 3)
  ELSE cwd \o "/" \o p

\* access(p, X_OK) == 0
IsXOK(a) == a \in ExecFiles \/ a \in Dirs \/ a \in {d \o "/" : d \in Dirs}
access_X_OK(cwd, p) == IsXOK(AbsPath(cwd, p))

\* strtok(s, ":"): the non-empty fields of s
RECURSIVE strtok_colon(_, _, _)
strtok_colon(s, i, cur) ==
  IF i > Len(s) THEN (IF cur = "" THEN << >> ELSE <<cur>>)
  ELSE IF Ch(s, i) = ":"
  THEN (IF cur = "" THEN << >> ELSE <<cur>>) \o strtok_colon(s, i + 1, "")
  ELSE strtok_colon(s, i + 1, cur \o Ch(s, i))

\* the search loop shared by find_executable_path and wsh_which: the first
\* dir/name that passes access(X_OK), "" (NULL) if none
RECURSIVE SearchDirs(_, _, _)
SearchDirs(cwd, dirs, name) ==
  IF dirs = << >> THEN ""
  ELSE IF access_X_OK(cwd, Head(dirs) \o "/" \o name)
  THEN Head(dirs) \o "/" \o name
  ELSE SearchDirs(cwd, Tail(dirs), name)

\* find_executable_path: "" stands for NULL
find_executable_path(cwd, path_env, command_name) ==
  IF Ch(command_name, 1) = "/"
     \/ (Ch(command_name, 1) = "." /\ Ch(command_name, 2) = "/")
  THEN (IF access_X_OK(cwd, command_name) THEN command_name ELSE "")
  ELSE IF Len(path_env) = 0 THEN ""
  ELSE SearchDirs(cwd, strtok_colon(path_env, 1, ""), command_name)

\* the builtins table
builtins == <<"exit", "alias", "unalias", "which", "path", "cd", "history">>
IsBuiltin(name) == \E k \in 1..Len(builtins) : builtins[k] = name

(***************************************************************************)
(* The history container (dynamic_array.c)                                 *)
(***************************************************************************)
\* da_put: append a copy of val
da_put(da, val) == Append(da, val)

\* da_print: the loop bound size-1 is unsigned; on an empty container it
\* wraps around and the loop reads past the stored entries
da_print(da) ==
  [out |-> IF Len(da) = 0 THEN << >> ELSE SubSeq(da, 1, Len(da) - 1),
   ub |-> Len(da) = 0]

(***************************************************************************)
(* strtol(arg, &endptr, 10)                                                *)
(***************************************************************************)
Digits == <<"0", "1", "2", "3", "4", "5", "6", "7", "8", "9">>
IsDigit(c) == \E d \in 1..10 : Digits[d] = c
DigitVal(c) == (CHOOSE d \in 1..10 : Digits[d] = c) - 1
IsSpace(c) == c \in {" ", "\t", "\n"}

RECURSIVE SkipWhite(_, _)
SkipWhite(s, i) ==
  IF i <= Len(s) /\ IsSpace(Ch(s, i)) THEN SkipWhite(s, i + 1) ELSE i

RECURSIVE ReadDigits(_, _, _)
ReadDigits(s, i, acc) ==
  IF i <= Len(s) /\ IsDigit(Ch(s, i))
  THEN ReadDigits(s, i + 1, acc * 10 + DigitVal(Ch(s, i)))
  ELSE [n |-> acc, end |-> i]

\* the digits of arg from position d on, after an optional sign
StrtolDigits(neg, d, r) ==
  IF r.end = d THEN [n |-> 0, end |-> 1]
  ELSE [n |-> IF neg THEN 0 - r.n ELSE r.n, end |-> r.end]

StrtolSign(arg, w) ==
  IF Ch(arg, w) \in {"-", "+"}
  THEN StrtolDigits(Ch(arg, w) = "-", w + 1, ReadDigits(arg, w + 1, 0))
  ELSE StrtolDigits(FALSE, w, ReadDigits(arg, w, 0))

\* n is the value, end the position endptr points at (1 = arg itself)
strtol(arg) == StrtolSign(arg, SkipWhite(arg, 1))

(***************************************************************************)
(* The alias table (hash_map.c): a function from names to expansions       *)
(***************************************************************************)
hm_create == [n \in {} |-> ""]
hm_has(hm, key) == key \in DOMAIN hm
\* hm_get: "" stands for NULL (guarded by hm_has)
hm_get(hm, key) == IF hm_has(hm, key) THEN hm[key] ELSE ""
hm_put(hm, key, value) ==
  [n \in DOMAIN hm \cup {key} |-> IF n = key THEN value ELSE hm[n]]
hm_delete(hm, key) == [n \in DOMAIN hm \ {key} |-> hm[n]]

\* the characters used by the model, in ASCII order
CharOrder == "\t\n '-./0123456789:=abcdefghijklmnopqrstuvwxyz|"
RECURSIVE StrLess(_, _)
StrLess(a, b) ==
  IF b = "" THEN FALSE
  ELSE IF a = "" THEN TRUE
  ELSE IF Ch(a, 1) = Ch(b, 1) THEN StrLess(From(a, 2), From(b, 2))
  ELSE strchr(CharOrder, 1, Ch(a, 1)) < strchr(CharOrder, 1, Ch(b, 1))

\* hm_print_sorted: one line per alias, sorted by name
RECURSIVE hm_print_sorted(_)
hm_print_sorted(hm) ==
  IF DOMAIN hm = {} THEN << >>
  ELSE LET k == CHOOSE n \in DOMAIN hm :
                  \A m \in DOMAIN hm \ {n} : StrLess(n, m)
       IN <<k \o " = '" \o hm[k] \o "'\n">> \o hm_print_sorted(hm_delete(hm, k))

(***************************************************************************)
(* Builtin handlers.  st is the interpreter state the handler runs on      *)
(* (the parent's, or the forked child's copy): rc, alias_hm, history_da,   *)
(* PATH, cwd.  The result gives the return value, the state it leaves,     *)
(* what it wrote to stdout (out), how many diagnostics it wrote to stderr  *)
(* (err), whether it called clean_exit (exits) and whether it ran into     *)
(* undefined behaviour (ub).                                               *)
(***************************************************************************)
Ret(st, ret) ==
  [ret |-> ret, rc |-> st.rc, alias_hm |-> st.alias_hm, PATH |-> st.PATH,
   cwd |-> st.cwd, out |-> << >>, err |-> 0, exits |-> FALSE, ub |-> FALSE]

\* wsh_warn followed by return EXIT_FAILURE
WarnFail(st) == [Ret(st, EXIT_FAILURE) EXCEPT !.rc = EXIT_FAILURE, !.err = 1]

wsh_exit(argv, st) ==
  IF Len(argv) > 1 THEN WarnFail(st)
  ELSE [Ret(st, EXIT_SUCCESS) EXCEPT !.exits = TRUE]

\* the one-argument form, t being strtol's result
HistoryEntry(st, arg, t) ==
  IF t.end = 1 \/ t.end <= Len(arg) \/ t.n <= 0 THEN WarnFail(st)
  ELSE IF t.n > Len(st.history_da) THEN WarnFail(st)
  ELSE [Ret(st, EXIT_SUCCESS) EXCEPT !.out = <<st.history_da[t.n]>>]

wsh_history(argv, st) ==
  IF Len(argv) > 2 THEN WarnFail(st)
  ELSE IF Len(argv) = 1
  THEN [Ret(st, EXIT_SUCCESS) EXCEPT !.out = da_print(st.history_da).out,
                                     !.ub = da_print(st.history_da).ub]
  ELSE HistoryEntry(st, argv[2], strtol(argv[2]))

wsh_alias(argv, st) ==
  IF Len(argv) = 1
  THEN [Ret(st, EXIT_SUCCESS) EXCEPT !.out = hm_print_sorted(st.alias_hm)]
  ELSE IF Len(argv) > 4 THEN WarnFail(st)
  \* argc = 2: argv[2] is the NULL sentinel and strcmp dereferences it
  ELSE IF Len(argv) = 2 THEN [WarnFail(st) EXCEPT !.ub = TRUE]
  ELSE IF argv[3] # "=" THEN WarnFail(st)
  ELSE IF Len(argv[2]) = 0 THEN WarnFail(st)
  ELSE [Ret(st, EXIT_SUCCESS) EXCEPT
          !.alias_hm = hm_put(st.alias_hm, argv[2],
                              IF Len(argv) = 4 THEN argv[4] ELSE " ")]

\* (variant: removing a name that is not in the table is an error)
wsh_unalias_strict(argv, st) ==
  IF Len(argv) # 2 THEN WarnFail(st)
  ELSE IF ~hm_has(st.alias_hm, argv[2]) THEN WarnFail(st)
  ELSE [Ret(st, EXIT_SUCCESS) EXCEPT !.alias_hm = hm_delete(st.alias_hm, argv[2])]

wsh_unalias(argv, st) ==
  IF Len(argv) # 2 THEN WarnFail(st)
  ELSE [Ret(st, EXIT_SUCCESS) EXCEPT !.alias_hm = hm_delete(st.alias_hm, argv[2])]

\* the path search of wsh_which: "" stands for NULL
WhichPath(name, st) ==
  IF Ch(name, 1) = "." \/ Ch(name, 1) = "/"
  THEN (IF access_X_OK(st.cwd, name) THEN name ELSE "")
  ELSE IF Len(st.PATH) > 0
  THEN SearchDirs(st.cwd, strtok_colon(st.PATH, 1, ""), name)
  ELSE ""

\* (variant: the builtins table is consulted before the alias table)
WhichReport_builtinFirst(name, st, full_path) ==
  IF IsBuiltin(name)
  THEN [Ret(st, EXIT_SUCCESS) EXCEPT !.out = <<name \o ": builtin">>]
  ELSE IF hm_has(st.alias_hm, name)
  THEN [Ret(st, EXIT_SUCCESS) EXCEPT
          !.out = <<name \o ": alias " \o hm_get(st.alias_hm, name)>>]
  ELSE IF full_path # ""
  THEN [Ret(st, EXIT_SUCCESS) EXCEPT
          !.out = <<name \o ": found at " \o full_path>>]
  ELSE [Ret(st, EXIT_FAILURE) EXCEPT !.out = <<name \o ": not found">>]

WhichReport(name, st, full_path) ==
  IF hm_has(st.alias_hm, name)
  THEN [Ret(st, EXIT_SUCCESS) EXCEPT
          !.out = <<name \o ": alias " \o hm_get(st.alias_hm, name)>>]
  ELSE IF IsBuiltin(name)
  THEN [Ret(st, EXIT_SUCCESS) EXCEPT !.out = <<name \o ": builtin">>]
  ELSE IF full_path # ""
  THEN [Ret(st, EXIT_SUCCESS) EXCEPT
          !.out = <<name \o ": found at " \o full_path>>]
  ELSE [Ret(st, EXIT_FAILURE) EXCEPT !.out = <<name \o ": not found">>]

wsh_which(argv, st) ==
  IF Len(argv) # 2 THEN WarnFail(st)
  ELSE WhichReport(argv[2], st, WhichPath(argv[2], st))

wsh_path(argv, st) ==
  IF Len(argv) > 2 THEN WarnFail(st)
  ELSE IF Len(argv) = 1
  THEN [Ret(st, EXIT_SUCCESS) EXCEPT !.out = <<st.PATH \o "\n">>]
  ELSE [Ret(st, EXIT_SUCCESS) EXCEPT !.PATH = argv[2]]

\* chdir(dir_to_go)
ChangeDir(st, target) ==
  IF target \in Dirs
  THEN [Ret(st, EXIT_SUCCESS) EXCEPT !.cwd = target]
  \* chdir failed: perror, no wsh_warn
  ELSE [Ret(st, EXIT_FAILURE) EXCEPT !.err = 1]

wsh_cd(argv, st) ==
  IF Len(argv) > 2 THEN WarnFail(st)
  ELSE ChangeDir(st, AbsPath(st.cwd, IF Len(argv) = 1 THEN HOME ELSE argv[2]))

\* builtins[i].func(argc, argv) for the entry named name
BuiltinFunc(name, argv, st) ==
  CASE name = "exit" -> wsh_exit(argv, st)
    [] name = "alias" -> wsh_alias(argv, st)
    [] name = "unalias" -> wsh_unalias(argv, st)
    [] name = "which" -> wsh_which(argv, st)
    [] name = "path" -> wsh_path(argv, st)
    [] name = "cd" -> wsh_cd(argv, st)
    [] name = "history" -> wsh_history(argv, st)

(***************************************************************************)
(* execute_command, up to the first fork                                   *)
(***************************************************************************)
\* the command line synthesized for an alias: the expansion, then a space
\* and each argument after the first
RECURSIVE JoinArgs(_, _)
JoinArgs(av, k) ==
  IF k > Len(av) THEN "" ELSE " " \o av[k] \o JoinArgs(av, k + 1)
\* (variant: the alias name itself is kept among the arguments)
AliasSubst_keepHead(alias_cmd, av) == alias_cmd \o JoinArgs(av, 1)
AliasSubst(alias_cmd, av) == alias_cmd \o JoinArgs(av, 2)

\* What one call of execute_command has done when it returns or reaches its
\* first fork: the path taken (kind), the return value (result), the state
\* left, the output written, the handler's return value (ret), the argument
\* vector handed to the handler or to execv (argv), the resolved path of an
\* external command (full_path), the validated segments of a pipeline.
Outcome(k, res, st) ==
  [kind |-> k, result |-> res, rc |-> st.rc, alias_hm |-> st.alias_hm,
   PATH |-> st.PATH, cwd |-> st.cwd, out |-> << >>, err |-> 0,
   exits |-> FALSE, ub |-> FALSE, ret |-> 0, argv |-> << >>,
   full_path |-> "", segments |-> << >>]

\* wsh_warn's effect on the state
Warned(st) == [st EXCEPT !.rc = EXIT_FAILURE]
WarnedIf(cond, st) == IF cond THEN Warned(st) ELSE st

\* execute_external_command once full_path is known ("" stands for NULL)
ResolvedExternal(av, st, is_absolute_or_relative, full_path) ==
  IF ~is_absolute_or_relative /\ full_path = "" /\ Len(st.PATH) = 0
  THEN [Outcome("not_found", EXIT_FAILURE, Warned(st)) EXCEPT
          !.err = 1, !.argv = av]
  ELSE IF full_path = ""
          \/ (is_absolute_or_relative /\ ~access_X_OK(st.cwd, full_path))
  THEN [Outcome("not_found", EXIT_FAILURE, Warned(st)) EXCEPT
          !.err = 1, !.argv = av]
  ELSE [Outcome("external", EXIT_SUCCESS, st) EXCEPT
          !.argv = av, !.full_path = full_path]

\* the resolution part of execute_external_command
ResolveExternal(av, st) ==
  IF Ch(av[1], 1) = "/" \/ (Ch(av[1], 1) = "." /\ Ch(av[1], 2) = "/")
  THEN ResolvedExternal(av, st, TRUE, av[1])
  ELSE ResolvedExternal(av, st, FALSE,
                        find_executable_path(st.cwd, st.PATH, av[1]))

\* rc = builtins[i].func(argc, argv); result = rc == EXIT_SUCCESS ? ...
BuiltinOutcome(av, h) ==
  [kind |-> "builtin",
   result |-> IF h.ret = EXIT_SUCCESS THEN EXIT_SUCCESS ELSE EXIT_FAILURE,
   rc |-> h.ret, alias_hm |-> h.alias_hm, PATH |-> h.PATH, cwd |-> h.cwd,
   out |-> h.out, err |-> h.err, exits |-> h.exits, ub |-> h.ub,
   ret |-> h.ret, argv |-> av, full_path |-> "", segments |-> << >>]

\* the single-command branch once the final argument vector is known
RunSingle(av, st) ==
  IF av[1] = "exit"
  THEN (IF Len(av) > 1
        THEN [Outcome("builtin", EXIT_FAILURE, Warned(st)) EXCEPT
                !.err = 1, !.ret = EXIT_FAILURE, !.argv = av]
        ELSE [Outcome("exit", EXIT_SUCCESS, st) EXCEPT
                !.exits = TRUE, !.argv = av])
  ELSE IF IsBuiltin(av[1])
  THEN BuiltinOutcome(av, BuiltinFunc(av[1], av, st))
  ELSE ResolveExternal(av, st)

\* a line that leaves nothing to execute
Nothing(k, warn, st, ub) ==
  [Outcome(IF warn THEN "parse_error" ELSE k, EXIT_SUCCESS, WarnedIf(warn, st))
     EXCEPT !.err = IF warn THEN 1 ELSE 0, !.ub = ub]

\* the single-command branch after the alias has been substituted and the
\* synthesized line tokenized again (p2)
SingleAliased(st, p1, p2) ==
  IF p2.argc = 0 THEN Nothing("noop", p2.warn, st, p1.oob)
  ELSE [RunSingle(p2.argv, st) EXCEPT !.ub = @ \/ p1.oob \/ p2.oob]

\* the single-command branch after the first tokenization (p1)
SingleParsed(st, p1) ==
  IF p1.argc = 0 THEN Nothing("blank", p1.warn, st, p1.oob)
  ELSE IF ~hm_has(st.alias_hm, p1.argv[1])
  THEN [RunSingle(p1.argv, st) EXCEPT !.ub = @ \/ p1.oob]
  ELSE SingleAliased(st, p1,
         parseline_no_subst(AliasSubst(hm_get(st.alias_hm, p1.argv[1]),
                                       p1.argv)))

\* the single-command branch of execute_command
SingleCommand(line, st) == SingleParsed(st, parseline_no_subst(line))

\* the split loop of the pipeline branch: segs are the segments stored so
\* far, segment_start the position after the last '|' consumed
RECURSIVE SplitSegments(_, _, _)
SplitSegments(copy, segment_start, segs) ==
  IF strchr(copy, segment_start, "|") # 0 /\ Len(segs) < MAX_ARGS
  THEN IF SkipSpaces(copy, segment_start) >= strchr(copy, segment_start, "|")
       THEN [ok |-> FALSE, segments |-> segs]
       ELSE SplitSegments(copy, strchr(copy, segment_start, "|") + 1,
              Append(segs, SubSeq(copy, segment_start,
                                  strchr(copy, segment_start, "|") - 1)))
  ELSE IF Len(segs) < MAX_ARGS
  THEN IF Ch(copy, SkipSpaces(copy, segment_start)) \in {"", "\n"}
       THEN [ok |-> FALSE, segments |-> segs]
       ELSE [ok |-> TRUE, segments |-> Append(segs, From(copy, segment_start))]
  ELSE [ok |-> TRUE, segments |-> segs]

\* the result of the pre-validation loop
Validated(ok, segs, st, err_count, ub) ==
  [ok |-> ok, segments |-> segs, st |-> st, err |-> err_count, ub |-> ub]

RECURSIVE ValidateSegments(_, _, _, _, _)

\* segment i once its final argument vector p2 is known: the builtin lookup
\* and find_executable_path
ValidateHead(segs, i, st, err_count, ub, p2) ==
  IF p2.argc = 0
  \* command_name is NULL and is handed to strcmp
  THEN Validated(FALSE, segs, Warned(st), err_count + 1, TRUE)
  ELSE IF ~IsBuiltin(p2.argv[1])
          /\ find_executable_path(st.cwd, st.PATH, p2.argv[1]) = ""
  THEN Validated(FALSE, segs, Warned(st), err_count + 1, ub \/ p2.oob)
  ELSE ValidateSegments(segs, i + 1, st, err_count, ub \/ p2.oob)

\* segment i whose head is an alias: subst is the synthesized line, which
\* replaces segments[i]
ValidateAliased(segs, i, st, err_count, ub, subst, p2) ==
  ValidateHead([segs EXCEPT ![i] = subst], i, WarnedIf(p2.warn, st),
               IF p2.warn THEN err_count + 1 ELSE err_count, ub, p2)

\* segment i after its first tokenization (p1)
ValidateParsed(segs, i, st, err_count, ub, p1) ==
  IF p1.argc = 0
  THEN Validated(FALSE, segs, Warned(st),
                 IF p1.warn THEN err_count + 2 ELSE err_count + 1,
                 ub \/ p1.oob)
  ELSE IF hm_has(st.alias_hm, p1.argv[1])
  THEN ValidateAliased(segs, i, st, err_count, ub \/ p1.oob,
         AliasSubst(hm_get(st.alias_hm, p1.argv[1]), p1.argv),
         parseline_no_subst(AliasSubst(hm_get(st.alias_hm, p1.argv[1]),
                                       p1.argv)))
  ELSE ValidateHead(segs, i, st, err_count, ub, p1)

\* the pre-validation loop from segment i on; err_count counts the
\* diagnostics written so far, ub records undefined behaviour met on the way
ValidateSegments(segs, i, st, err_count, ub) ==
  IF i > Len(segs) THEN Validated(TRUE, segs, st, err_count, ub)
  ELSE ValidateParsed(segs, i, st, err_count, ub, parseline_no_subst(segs[i]))

\* (variant: a cd in the first segment is run by the interpreter itself
\* rather than by a forked child)
PipelineValidated_inParent(v) ==
  IF ~v.ok
  THEN [Outcome("pipe_rejected", EXIT_FAILURE, v.st) EXCEPT
          !.err = v.err, !.ub = v.ub]
  ELSE [Outcome("pipeline", EXIT_SUCCESS, v.st) EXCEPT
          !.err = v.err, !.ub = v.ub, !.segments = v.segments,
          !.cwd = IF parseline_no_subst(v.segments[1]).argv[1] = "cd"
                  THEN wsh_cd(parseline_no_subst(v.segments[1]).argv, v.st).cwd
                  ELSE v.st.cwd]

\* the pipeline branch after the pre-validation loop
PipelineValidated(v) ==
  IF ~v.ok
  THEN [Outcome("pipe_rejected", EXIT_FAILURE, v.st) EXCEPT
          !.err = v.err, !.ub = v.ub]
  ELSE [Outcome("pipeline", EXIT_SUCCESS, v.st) EXCEPT
          !.err = v.err, !.ub = v.ub, !.segments = v.segments]

\* the pipeline branch after the split loop
PipelineSplit(st, sp) ==
  IF ~sp.ok
  THEN [Outcome("pipe_rejected", EXIT_FAILURE, Warned(st)) EXCEPT !.err = 1]
  ELSE PipelineValidated(ValidateSegments(sp.segments, 1, st, 0, FALSE))

\* the pipeline branch of execute_command up to the call of execute_pipeline
PipelineCommand(line, st) == PipelineSplit(st, SplitSegments(line, 1, << >>))

\* whether execute_command records the line in the history
IsRecorded(line) ==
  /\ Len(line) > 0
  /\ strspn_blank(Chomp(line), 1) # Len(Chomp(line))

\* (variant: the entry is stored without its trailing newline)
Recorded_chomped(da, line) ==
  IF IsRecorded(line) THEN da_put(da, Chomp(line)) ELSE da

\* the history after the recording step of execute_command
Recorded(da, line) == IF IsRecorded(line) THEN da_put(da, line) ELSE da

\* execute_command up to its return or its first fork, on state st
Dispatch(line, st) ==
  IF strchr(line, 1, "|") # 0
  THEN PipelineCommand(line, [st EXCEPT !.history_da = Recorded(@, line)])
  ELSE SingleCommand(line, [st EXCEPT !.history_da = Recorded(@, line)])

(***************************************************************************)
(* execute_segment: what a forked pipeline child does.  codes are the exit *)
(* statuses it can terminate with, out what a builtin wrote to the child's *)
(* standard output, ub whether the child ran into undefined behaviour.     *)
(***************************************************************************)
Behaviour(codes, child_out, ub) == [codes |-> codes, out |-> child_out, ub |-> ub]

\* execv(path, argv) in a child and, if it fails, _exit(EXIT_FAILURE);
\* path is absolute
ExecChild(path, ub) ==
  IF path \in ExecFiles THEN Behaviour(ProgramExit(path), << >>, ub)
  ELSE Behaviour({EXIT_FAILURE}, << >>, ub)

\* the builtin loop of execute_segment: _exit(builtins[i].func(argc, argv)),
\* unless the handler is wsh_exit and calls clean_exit(rc) itself
SegmentBuiltin(st, p, h) ==
  Behaviour({IF h.exits THEN st.rc ELSE h.ret}, h.out, h.ub \/ p.oob)

\* execute_segment after find_executable_path
SegmentExternal(st, p, path_to_exec) ==
  IF path_to_exec = "" THEN Behaviour({EXIT_FAILURE}, << >>, p.oob)
  ELSE ExecChild(AbsPath(st.cwd, path_to_exec), p.oob)

SegmentParsed(st, p) ==
  IF p.argc = 0 THEN Behaviour({EXIT_FAILURE}, << >>, FALSE)
  ELSE IF IsBuiltin(p.argv[1])
  THEN SegmentBuiltin(st, p, BuiltinFunc(p.argv[1], p.argv, st))
  ELSE SegmentExternal(st, p,
                       find_executable_path(st.cwd, st.PATH, p.argv[1]))

execute_segment(segment_cmdline, st) ==
  SegmentParsed(st, parseline_no_subst(segment_cmdline))

\* the child of execute_external_command: execv, or _exit(EXIT_FAILURE)
ExternalChild(full_path, st) == ExecChild(AbsPath(st.cwd, full_path), FALSE)

(***************************************************************************)
(* Input: the lines fgets can deliver.  A run draws its lines from one     *)
(* vocabulary; every vocabulary mixes ordinary commands with the lines of  *)
(* one feature.                                                            *)
(***************************************************************************)
\* vocabularies of cheap lines, of which a run reads one line more
LongRuns ==
  { {"alias ls = true\n", "alias cd = ls\n", "which ls\n", "which cd\n",
     "which zz\n", "unalias ls\n", "ls\n"},
    {"alias q = exit\n", "false\n", "q\n", "q 1\n", "alias e =\n", "e\n"} }

Vocabularies ==
  { {"alias x = 'echo hi'\n", "alias x = echo hi\n", "x there\n",
     "x there | ls\n", "x 'a  b'\n", "unalias x\n", "zz\n"},
    {"alias ls = 'ls -l'\n", "ls a\n", "ls a | ls\n", "false | ls a\n",
     "alias ls = false\n"},
    {"alias e =\n", "e\n", "e | ls\n", "false\n", "ls\n", "exit\n", "alias e\n"},
    {"history\n", "history 1\n", "history 2\n", "history 0\n", "history -1\n",
     "history 1x\n", "history 3\n", "ls\n", " \t \n"},
    {"alias h = history\n", "h\n", "alias \t = history\n", "\t\n",
     "history | ls\n", "\n", "zz\n", "h 1\n"},
    {"ls | false\n", "false | true | ls\n"},
    {"true|true|true|true| \n", "true|true|true|true|zz\n", "true | false\n",
     "zz\n", "ls | | ls\n", "ls |\n", "ls | zz\n"},
    {"exit\n", "exit 1\n", "ls 'a\n", "ls", "zz\n", "./run\n", "cd /bin\n",
     "path /home\n", "which ls\n", "ls a b c d\n"},
    {"which .tool\n", "which ./run\n", "which /bin/ls\n", ".tool\n",
     "cd /bin\n"},
    {"alias x\n", "alias x x echo\n", "exit 1\n", "unalias\n", "unalias a b\n",
     "which\n", "path a b\n", "cd a b\n", "history 1 2\n", "which zz\n",
     "which zz | true\n", "ls\ta\n", "a b c d e f 'g\n"},
    {"cd /home | path /home\n", "alias a = ls | unalias x\n", "exit | true\n",
     "cd /bin\n", "path /home\n", "alias x = ls\n", "unalias x\n"} }
  \cup LongRuns

(***************************************************************************)
(* State                                                                   *)
(***************************************************************************)
VARIABLES
  vocab,       \* the lines this run's input is made of
  mode,        \* "interactive" (no argument) or "batch" (a script file)
  pc,          \* where the interpreter is: "read", "ext_wait", "spawn",
               \* "wait_last", "wait_rest", "exited", "crashed"
  rc,          \* the global last return code
  alias_hm,    \* the alias table
  history_da,  \* the history container
  PATH,        \* the PATH environment variable
  cwd,         \* the working directory
  result,      \* the value returned by the last call of execute_command
  exit_code,   \* the exit code of the interpreter once it has exited
  nread,       \* number of lines read so far
  faults,      \* number of failed system calls and stray signals so far
  cmdline,     \* the line handed to the current or last execute_command
  kind,        \* the path the current or last execute_command took
  ret,         \* the value returned by the builtin handler, if one ran
  argv,        \* the argument vector handed to the handler or to execv
  segments,    \* execute_pipeline: the segments
  i,           \* execute_pipeline: the loop index i, then j of the wait loop
  all_success, \* execute_pipeline: all_success
  procs,       \* the children forked for the current or last line, in order
               \* of creation (pids[k] is procs[k+1])
  out,         \* what the interpreter wrote to stdout for this line
  err,         \* number of diagnostics the interpreter wrote to stderr for it
  fds          \* the pipe ends open in the interpreter

vars == <<vocab, mode, pc, rc, alias_hm, history_da, PATH, cwd, result,
          exit_code, nread, faults, cmdline, kind, ret, argv, segments, i,
          all_success, procs, out, err, fds>>

\* the interpreter state handlers and children work on
State == [rc |-> rc, alias_hm |-> alias_hm, history_da |-> history_da,
          PATH |-> PATH, cwd |-> cwd]

\* main up to the call of interactive_main or batch_main
Init ==
  /\ vocab \in Vocabularies
  /\ mode \in {"interactive", "batch"}
  /\ pc = "read"
  /\ rc = 0
  /\ alias_hm = hm_create
  /\ history_da = << >>
  /\ PATH = DefaultPath
  /\ cwd = StartDir
  /\ result = EXIT_SUCCESS
  /\ exit_code = -1
  /\ nread = 0
  /\ faults = 0
  /\ cmdline = ""
  /\ kind = "none"
  /\ ret = 0
  /\ argv = << >>
  /\ segments = << >>
  /\ i = 0
  /\ all_success = EXIT_SUCCESS
  /\ procs = << >>
  /\ out = << >>
  /\ err = 0
  /\ fds = {}

\* Descriptors.  A pipe end is <<n, k, end>>: the read ("r") or write ("w")
\* end of the pipe made in iteration k of the spawn loop for the n-th line;
\* the interpreter's own standard input and output are the ends of line 0.
STDIN_FILENO == <<0, 0, "r">>
STDOUT_FILENO == <<0, 0, "w">>

\* a freshly forked child running cmd: in_fd and out_fd are what its
\* standard input and output refer to once the redirections are made, held
\* the other pipe ends it inherited and did not close
NewChild(beh, cmd, in_fd, out_fd, held) ==
  [codes |-> beh.codes, out |-> beh.out, ub |-> beh.ub, state |-> "running",
   exited |-> FALSE, code |-> 0, waits |-> 0, sigterm |-> FALSE,
   cmd |-> cmd, in_fd |-> in_fd, out_fd |-> out_fd, held |-> held]

\* the part of a line's effect common to every way execute_command starts
Begin(line, o) ==
  /\ nread' = nread + 1
  /\ cmdline' = line
  /\ history_da' = Recorded(history_da, line)
  /\ alias_hm' = o.alias_hm
  /\ PATH' = o.PATH
  /\ cwd' = o.cwd
  /\ out' = o.out
  /\ ret' = o.ret
  /\ argv' = o.argv
  /\ UNCHANGED <<vocab, mode, fds>>

\* the number of lines a run reads
LineBudget == IF vocab \in LongRuns THEN MaxLines + 1 ELSE MaxLines
CanRead == pc = "read" /\ nread < LineBudget

\* a line that execute_command finishes without forking: blank line, parse
\* error, empty alias, builtin, unresolved command, rejected pipeline
Returned(line, o) ==
  /\ CanRead
  /\ o.kind \notin {"external", "pipeline", "exit"}
  /\ Begin(line, o)
  /\ kind' = o.kind
  /\ err' = o.err
  /\ rc' = o.rc
  /\ result' = o.result
  /\ pc' = "read"
  /\ procs' = << >>
  /\ UNCHANGED <<exit_code, faults, segments, i, all_success>>
ReadLine(line) == Returned(line, Dispatch(line, State))

\* a line on which the interpreter runs into undefined behaviour (a NULL
\* head token handed to strcmp, a sentinel stored past the argument vector,
\* da_print on an empty container) and is killed by the resulting fault
Crashed(line, o) ==
  /\ CanRead
  /\ o.ub
  /\ Begin(line, o)
  /\ kind' = "crash"
  /\ err' = o.err
  /\ pc' = "crashed"
  /\ procs' = << >>
  /\ UNCHANGED <<rc, result, exit_code, faults, segments, i, all_success>>
ReadLineCrash(line) == Crashed(line, Dispatch(line, State))

\* (variant: the interpreter exits with status 0 whatever rc holds)
Exited_status0(line, o) ==
  /\ CanRead
  /\ o.kind = "exit"
  /\ Begin(line, o)
  /\ kind' = "exit"
  /\ err' = o.err
  /\ rc' = o.rc
  /\ exit_code' = EXIT_SUCCESS
  /\ pc' = "exited"
  /\ procs' = << >>
  /\ UNCHANGED <<result, faults, segments, i, all_success>>

\* bare exit: clean_exit(rc)
Exited(line, o) ==
  /\ CanRead
  /\ o.kind = "exit"
  /\ Begin(line, o)
  /\ kind' = "exit"
  /\ err' = o.err
  /\ rc' = o.rc
  /\ exit_code' = o.rc
  /\ pc' = "exited"
  /\ procs' = << >>
  /\ UNCHANGED <<result, faults, segments, i, all_success>>
ReadLineExit(line) == Exited(line, Dispatch(line, State))

\* a resolved external command whose fork succeeds
Forked(line, o) ==
  /\ CanRead
  /\ o.kind = "external"
  /\ Begin(line, o)
  /\ kind' = "external"
  /\ err' = o.err
  /\ rc' = o.rc
  /\ procs' = <<NewChild(ExternalChild(o.full_path, State), line,
                         STDIN_FILENO, STDOUT_FILENO, fds)>>
  /\ pc' = "ext_wait"
  /\ UNCHANGED <<result, exit_code, faults, segments, i, all_success>>
ReadLineFork(line) == Forked(line, Dispatch(line, State))

\* a resolved external command whose fork fails
ForkFailed(line, o) ==
  /\ CanRead
  /\ o.kind = "external"
  /\ faults < MaxFaults
  /\ Begin(line, o)
  /\ faults' = faults + 1
  /\ kind' = "fork_failed"
  /\ err' = o.err + 1
  /\ rc' = o.rc
  /\ result' = EXIT_FAILURE
  /\ procs' = << >>
  /\ pc' = "read"
  /\ UNCHANGED <<exit_code, segments, i, all_success>>
ReadLineForkFail(line) == ForkFailed(line, Dispatch(line, State))

\* a validated pipeline: execute_pipeline is entered
PipelineEntered(line, o) ==
  /\ CanRead
  /\ o.kind = "pipeline"
  /\ Begin(line, o)
  /\ kind' = "pipeline"
  /\ err' = o.err
  /\ rc' = o.rc
  /\ segments' = o.segments
  /\ i' = 0
  /\ all_success' = EXIT_SUCCESS
  /\ procs' = << >>
  /\ pc' = "spawn"
  /\ UNCHANGED <<result, exit_code, faults>>
ReadLinePipeline(line) == PipelineEntered(line, Dispatch(line, State))

(***************************************************************************)
(* execute_external_command after the fork                                 *)
(***************************************************************************)
\* waitpid(pid) returns the status of the terminated child
ExtWait ==
  /\ pc = "ext_wait"
  /\ procs[1].state = "zombie"
  /\ procs' = [procs EXCEPT ![1].state = "reaped", ![1].waits = @ + 1]
  /\ rc' = IF procs[1].exited THEN procs[1].code ELSE EXIT_FAILURE
  /\ result' = EXIT_SUCCESS
  /\ pc' = "read"
  /\ UNCHANGED <<vocab, mode, alias_hm, history_da, PATH, cwd, exit_code,
                 nread, faults, cmdline, kind, ret, argv, segments, i,
                 all_success, out, err, fds>>

\* waitpid(pid) fails
ExtWaitFail ==
  /\ pc = "ext_wait"
  /\ faults < MaxFaults
  /\ faults' = faults + 1
  /\ procs' = [procs EXCEPT ![1].waits = @ + 1]
  /\ result' = EXIT_FAILURE
  /\ kind' = "wait_failed"
  /\ err' = err + 1
  /\ pc' = "read"
  /\ UNCHANGED <<vocab, mode, rc, alias_hm, history_da, PATH, cwd, exit_code,
                 nread, cmdline, ret, argv, segments, i, all_success, out,
                 fds>>

(***************************************************************************)
(* execute_pipeline                                                        *)
(***************************************************************************)
num_segments == Len(segments)

\* kill(pids[j], SIGTERM) for every j < i
KillSiblings(ps) == [k \in 1..Len(ps) |-> [ps[k] EXCEPT !.sigterm = TRUE]]

PipeFrame == UNCHANGED <<vocab, mode, alias_hm, history_da, PATH, cwd,
                         exit_code, nread, cmdline, ret, argv, segments, out>>

\* pipefd[0] and pipefd[1] of the pipe made in iteration k
PipeRead(k) == <<nread, k, "r">>
PipeWrite(k) == <<nread, k, "w">>

\* prev_pipe_read_fd at the top of iteration i
prev_pipe_read_fd == IF i = 0 THEN STDIN_FILENO ELSE PipeRead(i - 1)

\* the descriptors left open in a child that was handed in_fd and out_fd:
\* execute_segment closes both after dup2
SegmentHeld(inherited, in_fd, out_fd) == inherited \ {in_fd, out_fd}

\* (variant: the parent keeps pipefd[1] open after the fork)
SpawnSegment_keepWrite ==
  /\ pc = "spawn"
  /\ i < num_segments - 1
  /\ procs' = Append(procs,
                NewChild(execute_segment(segments[i + 1], State),
                         segments[i + 1], prev_pipe_read_fd, PipeWrite(i),
                         SegmentHeld((fds \cup {PipeRead(i), PipeWrite(i)})
                                       \ {PipeRead(i)},
                                     prev_pipe_read_fd, PipeWrite(i))))
  /\ fds' = (fds \ {prev_pipe_read_fd}) \cup {PipeRead(i), PipeWrite(i)}
  /\ i' = i + 1
  /\ PipeFrame
  /\ UNCHANGED <<pc, rc, result, faults, kind, all_success, err>>

\* one iteration of the spawn loop: pipe and fork succeed.  The child
\* closes pipefd[0]; the parent closes pipefd[1] and the previous read end
\* and keeps pipefd[0]
SpawnSegment ==
  /\ pc = "spawn"
  /\ i < num_segments - 1
  /\ procs' = Append(procs,
                NewChild(execute_segment(segments[i + 1], State),
                         segments[i + 1], prev_pipe_read_fd, PipeWrite(i),
                         SegmentHeld((fds \cup {PipeRead(i), PipeWrite(i)})
                                       \ {PipeRead(i)},
                                     prev_pipe_read_fd, PipeWrite(i))))
  /\ fds' = (fds \ {prev_pipe_read_fd}) \cup {PipeRead(i)}
  /\ i' = i + 1
  /\ PipeFrame
  /\ UNCHANGED <<pc, rc, result, faults, kind, all_success, err>>

\* one iteration of the spawn loop: pipe fails
SpawnPipeFail ==
  /\ pc = "spawn"
  /\ i < num_segments - 1
  /\ faults < MaxFaults
  /\ faults' = faults + 1
  /\ procs' = KillSiblings(procs)
  /\ result' = EXIT_FAILURE
  /\ kind' = "pipe_failed"
  /\ err' = err + 1
  /\ pc' = "read"
  /\ PipeFrame
  /\ UNCHANGED <<rc, i, all_success, fds>>

\* one iteration of the spawn loop: fork fails
SpawnForkFail ==
  /\ pc = "spawn"
  /\ i < num_segments - 1
  /\ faults < MaxFaults
  /\ faults' = faults + 1
  /\ procs' = KillSiblings(procs)
  /\ result' = EXIT_FAILURE
  /\ kind' = "fork_failed"
  /\ err' = err + 1
  /\ pc' = "read"
  /\ PipeFrame
  /\ UNCHANGED <<rc, i, all_success, fds>>

\* the fork of the last segment succeeds
SpawnLast ==
  /\ pc = "spawn"
  /\ i = num_segments - 1
  /\ procs' = Append(procs,
                NewChild(execute_segment(segments[i + 1], State),
                         segments[i + 1], prev_pipe_read_fd, STDOUT_FILENO,
                         SegmentHeld(fds, prev_pipe_read_fd, STDOUT_FILENO)))
  /\ fds' = fds \ {prev_pipe_read_fd}
  /\ pc' = "wait_last"
  /\ PipeFrame
  /\ UNCHANGED <<rc, result, faults, kind, i, all_success, err>>

\* the fork of the last segment fails
SpawnLastForkFail ==
  /\ pc = "spawn"
  /\ i = num_segments - 1
  /\ faults < MaxFaults
  /\ faults' = faults + 1
  /\ procs' = KillSiblings(procs)
  /\ result' = EXIT_FAILURE
  /\ kind' = "fork_failed"
  /\ err' = err + 1
  /\ pc' = "read"
  /\ PipeFrame
  /\ UNCHANGED <<rc, i, all_success, fds>>

\* (variant: rc is taken from the status of the first segment)
WaitLast_firstSegment ==
  /\ pc = "wait_last"
  /\ procs[num_segments].state = "zombie"
  /\ procs' = [procs EXCEPT ![num_segments].state = "reaped",
                            ![num_segments].waits = @ + 1]
  /\ rc' = IF procs[1].exited THEN procs[1].code ELSE EXIT_FAILURE
  /\ all_success' = IF procs[num_segments].exited
                       /\ procs[num_segments].code = EXIT_SUCCESS
                    THEN EXIT_SUCCESS ELSE EXIT_FAILURE
  /\ i' = 0
  /\ pc' = "wait_rest"
  /\ PipeFrame
  /\ UNCHANGED <<result, faults, kind, err, fds>>

\* waitpid(pid_last) returns the status of the last segment
WaitLast ==
  /\ pc = "wait_last"
  /\ procs[num_segments].state = "zombie"
  /\ procs' = [procs EXCEPT ![num_segments].state = "reaped",
                            ![num_segments].waits = @ + 1]
  /\ rc' = IF procs[num_segments].exited THEN procs[num_segments].code
           ELSE EXIT_FAILURE
  /\ all_success' = IF procs[num_segments].exited
                       /\ procs[num_segments].code = EXIT_SUCCESS
                    THEN EXIT_SUCCESS ELSE EXIT_FAILURE
  /\ i' = 0
  /\ pc' = "wait_rest"
  /\ PipeFrame
  /\ UNCHANGED <<result, faults, kind, err, fds>>

\* waitpid(pid_last) fails
WaitLastFail ==
  /\ pc = "wait_last"
  /\ faults < MaxFaults
  /\ faults' = faults + 1
  /\ procs' = [procs EXCEPT ![num_segments].waits = @ + 1]
  /\ rc' = EXIT_FAILURE
  /\ all_success' = EXIT_FAILURE
  /\ err' = err + 1
  /\ i' = 0
  /\ pc' = "wait_rest"
  /\ PipeFrame
  /\ UNCHANGED <<result, kind, fds>>

\* where the wait loop goes after waiting for pids[j]
AfterWait(as) ==
  IF i + 1 < num_segments - 1
  THEN /\ pc' = "wait_rest"
       /\ i' = i + 1
       /\ UNCHANGED result
  ELSE /\ pc' = "read"
       /\ i' = i + 1
       /\ result' = as

\* one iteration of the wait loop: waitpid(pids[j]) returns
WaitRest ==
  /\ pc = "wait_rest"
  /\ procs[i + 1].state = "zombie"
  /\ procs' = [procs EXCEPT ![i + 1].state = "reaped", ![i + 1].waits = @ + 1]
  /\ AfterWait(all_success)
  /\ PipeFrame
  /\ UNCHANGED <<rc, faults, kind, all_success, err, fds>>

\* one iteration of the wait loop: waitpid(pids[j]) fails
WaitRestFail ==
  /\ pc = "wait_rest"
  /\ faults < MaxFaults
  /\ faults' = faults + 1
  /\ procs' = [procs EXCEPT ![i + 1].waits = @ + 1]
  /\ all_success' = EXIT_FAILURE
  /\ err' = err + 1
  /\ AfterWait(EXIT_FAILURE)
  /\ PipeFrame
  /\ UNCHANGED <<rc, kind, fds>>

(***************************************************************************)
(* The children                                                            *)
(***************************************************************************)
ChildFrame == UNCHANGED <<vocab, mode, pc, rc, alias_hm, history_da, PATH,
                          cwd, result, exit_code, nread, cmdline, kind, ret,
                          argv, segments, i, all_success, out, err, fds>>

\* child k terminates by itself with one of its exit statuses
ChildExit(k) ==
  /\ pc \notin {"exited", "crashed"}
  /\ procs[k].state = "running"
  /\ \E c \in procs[k].codes :
       procs' = [procs EXCEPT ![k].state = "zombie", ![k].exited = TRUE,
                              ![k].code = c]
  /\ UNCHANGED faults
  /\ ChildFrame

\* child k is terminated by a signal the interpreter caused: the SIGTERM of
\* the cleanup, or the fault of its own undefined behaviour
ChildKilled(k) ==
  /\ pc \notin {"exited", "crashed"}
  /\ procs[k].state = "running"
  /\ procs[k].sigterm \/ procs[k].ub
  /\ procs' = [procs EXCEPT ![k].state = "zombie", ![k].exited = FALSE]
  /\ UNCHANGED faults
  /\ ChildFrame

\* child k is terminated by a signal from elsewhere
ChildSignalled(k) ==
  /\ pc \notin {"exited", "crashed"}
  /\ procs[k].state = "running"
  /\ faults < MaxFaults
  /\ faults' = faults + 1
  /\ procs' = [procs EXCEPT ![k].state = "zombie", ![k].exited = FALSE]
  /\ ChildFrame

(***************************************************************************)
(* End of input                                                            *)
(***************************************************************************)
EndFrame == UNCHANGED <<vocab, mode, alias_hm, history_da, PATH, cwd, result,
                        nread, faults, cmdline, kind, ret, argv, segments, i,
                        all_success, procs, out, err, fds>>

\* interactive_main: fgets returns NULL, clean_exit(rc)
InteractiveEOF ==
  /\ pc = "read"
  /\ mode = "interactive"
  /\ exit_code' = rc
  /\ pc' = "exited"
  /\ UNCHANGED rc
  /\ EndFrame

\* batch_main: fgets returns NULL, batch_main returns result, main stores it
\* in rc and returns rc
BatchEOF ==
  /\ pc = "read"
  /\ mode = "batch"
  /\ rc' = result
  /\ exit_code' = result
  /\ pc' = "exited"
  /\ EndFrame

Next ==
  \/ \E line \in vocab : ReadLine(line)
  \/ \E line \in vocab : ReadLineCrash(line)
  \/ \E line \in vocab : ReadLineExit(line)
  \/ \E line \in vocab : ReadLineFork(line)
  \/ \E line \in vocab : ReadLineForkFail(line)
  \/ \E line \in vocab : ReadLinePipeline(line)
  \/ ExtWait
  \/ ExtWaitFail
  \/ SpawnSegment
  \/ SpawnPipeFail
  \/ SpawnForkFail
  \/ SpawnLast
  \/ SpawnLastForkFail
  \/ WaitLast
  \/ WaitLastFail
  \/ WaitRest
  \/ WaitRestFail
  \/ \E k \in 1..Len(procs) : ChildExit(k)
  \/ \E k \in 1..Len(procs) : ChildKilled(k)
  \/ \E k \in 1..Len(procs) : ChildSignalled(k)
  \/ InteractiveEOF
  \/ BatchEOF

Spec == Init /\ [][Next]_vars

(***************************************************************************)
(* Progress.  waitpid returns once the child it waits for has terminated.  *)
(* A program run as a segment is taken to terminate once it sees the end   *)
(* of its standard input (no write end of the pipe it reads is open any    *)
(* more) or a broken pipe on its standard output (no read end of the pipe  *)
(* it writes is open any more); the interpreter's own standard input is    *)
(* taken to be finite, so a segment reading it sees its end.               *)
(***************************************************************************)
\* child k has descriptor fd open
OpenIn(k, fd) ==
  /\ procs[k].state = "running"
  /\ (procs[k].in_fd = fd \/ procs[k].out_fd = fd \/ fd \in procs[k].held)

\* descriptor fd is open in the interpreter or in one of the children
IsOpen(fd) == fd \in fds \/ \E k \in 1..Len(procs) : OpenIn(k, fd)

\* the other end of the pipe of which fd is one end
Peer(fd) == <<fd[1], fd[2], IF fd[3] = "r" THEN "w" ELSE "r">>

\* child k is not held up by an open pipe end
Unblocked(k) ==
  \/ procs[k].in_fd = STDIN_FILENO
  \/ ~IsOpen(Peer(procs[k].in_fd))
  \/ procs[k].out_fd # STDOUT_FILENO /\ ~IsOpen(Peer(procs[k].out_fd))

\* child k terminates because nothing holds it up
Finish(k) == k <= Len(procs) /\ Unblocked(k) /\ ChildExit(k)

LiveSpec ==
  /\ Init /\ [][Next]_vars
  /\ WF_vars(ExtWait)
  /\ WF_vars(WaitLast)
  /\ WF_vars(WaitRest)
  /\ \A k \in 1..MAX_ARGS : WF_vars(Finish(k))

TypeOK ==
  /\ pc \in {"read", "ext_wait", "spawn", "wait_last", "wait_rest", "exited",
             "crashed"}
  /\ rc \in 0..255
  /\ Len(procs) <= MAX_ARGS

(***************************************************************************)
(* Notions the properties are stated in                                    *)
(***************************************************************************)
\* every '|'-separated segment of a line, however many there are
RECURSIVE AllSegments(_, _)
AllSegments(line, from) ==
  IF strchr(line, from, "|") = 0 THEN <<From(line, from)>>
  ELSE <<SubSeq(line, from, strchr(line, from, "|") - 1)>>
       \o AllSegments(line, strchr(line, from, "|") + 1)

IsPipelineLine(line) == strchr(line, 1, "|") # 0

\* a string made of spaces, tabs and newlines only
AllWhitespace(str) == \A n \in 1..Len(str) : Ch(str, n) \in {" ", "\t", "\n"}

\* the argument vector of a command text after alias substitution
FinalArgv(text, hm) ==
  IF parseline_no_subst(text).argc > 0
     /\ parseline_no_subst(text).argv[1] \in DOMAIN hm
  THEN parseline_no_subst(
         hm[parseline_no_subst(text).argv[1]]
         \o JoinArgs(parseline_no_subst(text).argv, 2)).argv
  ELSE parseline_no_subst(text).argv

\* a segment that must keep its pipeline from starting
BadSegment(seg) ==
  \/ AllWhitespace(seg)
  \/ parseline_no_subst(seg).argc = 0
  \/ FinalArgv(seg, alias_hm) = << >>
  \/ /\ ~IsBuiltin(FinalArgv(seg, alias_hm)[1])
     /\ find_executable_path(cwd, PATH, FinalArgv(seg, alias_hm)[1]) = ""

\* execute_command has returned from the current line
Returned_ == pc = "read" /\ nread > 0

\* the wait status of child k as the parent decodes it
StatusOf(k) == IF procs[k].exited THEN procs[k].code ELSE EXIT_FAILURE

(***************************************************************************)
(* C1: every child process created for a line (each pipeline segment, the  *)
(* child of an external command) has been waited on exactly once when the  *)
(* dispatcher returns from the line, on every path, the pipe() and fork()  *)
(* failure paths included.                                                 *)
(***************************************************************************)
C1_WaitedExactlyOnce ==
  Returned_ => \A k \in 1..Len(procs) : procs[k].waits = 1

(***************************************************************************)
(* C2: pipelines never partially start.  For a line containing '|' with a  *)
(* segment that is empty or all whitespace, tokenizes to nothing, or whose *)
(* head token after alias substitution is neither a builtin nor a          *)
(* resolvable executable, execute_command returns failure, no process is   *)
(* created for the line, and the last return code is failure.              *)
(***************************************************************************)
C2_NeverPartiallyStarts ==
  (/\ nread > 0
   /\ IsPipelineLine(cmdline)
   /\ \E n \in 1..Len(AllSegments(cmdline, 1)) :
        BadSegment(AllSegments(cmdline, 1)[n]))
  => /\ procs = << >>
     /\ pc \in {"read", "exited"}
     /\ result = EXIT_FAILURE
     /\ pc = "read" => rc = EXIT_FAILURE

(***************************************************************************)
(* C3: for a pipeline of N >= 2 segments whose N processes were all        *)
(* created and collected, the last return code after the line is the exit  *)
(* status of the rightmost segment, whatever the statuses of the other     *)
(* segments and the order in which the children terminate; it is failure   *)
(* if the last segment did not exit normally or waiting on it failed.      *)
(***************************************************************************)
C3_LastSegmentStatus ==
  (/\ Returned_
   /\ kind = "pipeline"
   /\ Len(procs) = Len(AllSegments(cmdline, 1)))
  => rc = IF procs[Len(procs)].state = "reaped" THEN StatusOf(Len(procs))
          ELSE EXIT_FAILURE

\* a three-segment pipeline has returned; the first segment failed, the
\* second succeeded and the last one exited with status 2
C3_Witness ==
  /\ Returned_
  /\ kind = "pipeline"
  /\ Len(procs) = 3
  /\ Len(AllSegments(cmdline, 1)) = 3
  /\ \A k \in 1..3 : procs[k].state = "reaped"
  /\ StatusOf(1) = 1
  /\ StatusOf(2) = 0
  /\ StatusOf(3) = 2
  /\ rc = 2

(***************************************************************************)
(* C4: whenever the interpreter terminates (bare exit, end of input in     *)
(* interactive mode, end of the script in batch mode) its exit code is the *)
(* last return code as it stood after the last executed line.              *)
(***************************************************************************)
C4_ExitCodeIsLastReturnCode ==
  [][(pc # "exited" /\ pc' = "exited") => exit_code' = rc]_vars

(***************************************************************************)
(* C5: after any sequence of lines the last return code holds the status   *)
(* of the most recently completed command: the handler's return value for  *)
(* a builtin, the child's exit status for an external command (failure if  *)
(* it terminated abnormally), the last segment's status for a pipeline;    *)
(* a command that succeeded leaves success and a command that failed       *)
(* leaves failure, never the status of an older command.                   *)
(***************************************************************************)
C5_StatusOfLastCommand ==
  Returned_ =>
    CASE kind = "builtin" -> rc = ret
      [] kind = "external" -> rc = StatusOf(1)
      [] kind = "pipeline" ->
           rc = IF procs[Len(procs)].state = "reaped" THEN StatusOf(Len(procs))
                ELSE EXIT_FAILURE
      [] kind = "noop" -> rc = EXIT_SUCCESS
      [] kind \in {"not_found", "pipe_rejected", "fork_failed", "pipe_failed",
                   "wait_failed"} -> rc = EXIT_FAILURE
      [] OTHER -> TRUE

(***************************************************************************)
(* C6: when argument[0] of a parsed command is an alias, the vector        *)
(* executed is the tokenization of the expansion text followed by a space  *)
(* and each original argument[1..] joined by single spaces; argument[0] is *)
(* dropped and the head of the expansion is not looked up again, in single *)
(* commands and in pipeline segments.  The definition has to give the      *)
(* expansion as one token: after alias x = 'echo hi', the line x there     *)
(* executes echo hi there.                                                 *)
(***************************************************************************)
RECURSIVE SpaceJoined(_, _)
SpaceJoined(av, k) ==
  IF k > Len(av) THEN "" ELSE (" " \o av[k]) \o SpaceJoined(av, k + 1)

\* the vector expected for a command text whose head is an alias
ExpandedVector(text, hm) ==
  parseline_no_subst(hm[parseline_no_subst(text).argv[1]]
                     \o SpaceJoined(parseline_no_subst(text).argv, 2)).argv

HeadIsAlias(text, hm) ==
  /\ parseline_no_subst(text).argc > 0
  /\ parseline_no_subst(text).argv[1] \in DOMAIN hm

C6_AliasExpansion ==
  [][nread' = nread + 1 =>
       /\ (/\ ~IsPipelineLine(cmdline')
           /\ HeadIsAlias(cmdline', alias_hm)
           /\ kind' \in {"builtin", "external", "not_found", "fork_failed",
                         "exit", "noop"})
          => argv' = ExpandedVector(cmdline', alias_hm)
       /\ kind' = "pipeline"
          => \A n \in 1..Len(segments') :
               HeadIsAlias(AllSegments(cmdline', 1)[n], alias_hm)
               => parseline_no_subst(segments'[n]).argv
                  = ExpandedVector(AllSegments(cmdline', 1)[n], alias_hm)
       /\ (/\ history_da' = <<"alias x = 'echo hi'\n", "x there\n">>
           /\ kind' # "crash")
          => argv' = <<"echo", "hi", "there">>]_vars

\* x has been defined with a quoted expansion and x there has been run
C6_Witness ==
  /\ history_da = <<"alias x = 'echo hi'\n", "x there\n">>
  /\ kind = "external"
  /\ pc = "ext_wait"
  /\ argv = <<"echo", "hi", "there">>

\* the same property for the definition written without quotes
C6_Original ==
  (/\ history_da = <<"alias x = echo hi\n", "x there\n">>
   /\ ~IsPipelineLine(cmdline))
  => argv = <<"echo", "hi", "there">>

(***************************************************************************)
(* C7: a command whose head is an alias that expands to an empty argument  *)
(* vector is a no-op that succeeds: no process, the dispatcher returns     *)
(* success and the last return code is success; a pipeline segment whose   *)
(* alias expands to nothing is handled with a defined status and never     *)
(* makes the interpreter compare a head token that does not exist.         *)
(***************************************************************************)
ExpandsToNothing(text, hm) ==
  HeadIsAlias(text, hm) /\ ExpandedVector(text, hm) = << >>

C7_EmptyAliasIsNoOp ==
  /\ (Returned_ /\ kind = "noop")
     => (result = EXIT_SUCCESS /\ rc = EXIT_SUCCESS /\ procs = << >>)
  /\ (/\ nread > 0
      /\ IsPipelineLine(cmdline)
      /\ \E n \in 1..Len(AllSegments(cmdline, 1)) :
           ExpandsToNothing(AllSegments(cmdline, 1)[n], alias_hm))
     => pc # "crashed"

(***************************************************************************)
(* C8: after N lines that each contain a non-whitespace character, a       *)
(* following history with no argument prints exactly those N lines,        *)
(* verbatim and oldest first, without the invoking line, whether history   *)
(* is typed directly, reached through an alias or run as a pipeline        *)
(* segment.                                                                *)
(***************************************************************************)
C8_HistoryListsPriorLines ==
  [][/\ (/\ nread' = nread + 1
         /\ Len(history_da) = nread
         /\ kind' = "builtin"
         /\ argv' = <<"history">>)
        => out' = history_da
     /\ \A k \in 1..Len(procs') :
          (/\ Len(history_da') = nread'
           /\ k <= Len(segments')
           /\ parseline_no_subst(segments'[k]).argv = <<"history">>)
          => procs'[k].out = SubSeq(history_da', 1, Len(history_da') - 1)]_vars

(***************************************************************************)
(* C9: with N lines recorded before the invoking line, history k prints    *)
(* exactly entry k and succeeds for 1 <= k <= N, and is a usage error      *)
(* (failure status, last return code failure, nothing printed) for every   *)
(* other k: non-numeric, zero, negative, out of range, N+1 included.       *)
(***************************************************************************)
IsDecimal(str) == Len(str) > 0 /\ \A n \in 1..Len(str) : IsDigit(Ch(str, n))
DecimalValue(str) == ReadDigits(str, 1, 0).n

C9_HistoryEntry ==
  [][(/\ nread' = nread + 1
      /\ kind' = "builtin"
      /\ Len(argv') = 2
      /\ parseline_no_subst(cmdline').argv = argv'
      /\ argv'[1] = "history")
     => IF /\ IsDecimal(argv'[2])
           /\ DecimalValue(argv'[2]) \in 1..Len(history_da)
        THEN /\ out' = <<history_da[DecimalValue(argv'[2])]>>
             /\ ret' = EXIT_SUCCESS
             /\ rc' = EXIT_SUCCESS
        ELSE /\ out' = << >>
             /\ ret' = EXIT_FAILURE
             /\ rc' = EXIT_FAILURE]_vars

(***************************************************************************)
(* C10: history is append-only and records every attempt.  Each dispatched *)
(* line with a non-whitespace character appends the verbatim line, before  *)
(* anything is tokenized or executed and whatever the line's outcome;      *)
(* empty and all-blank lines leave the history unchanged; nothing ever     *)
(* removes, reorders or alters an entry.                                   *)
(***************************************************************************)
C10_HistoryAppendOnly ==
  [][IF nread' = nread + 1
     THEN history_da' = IF AllWhitespace(cmdline') THEN history_da
                        ELSE Append(history_da, cmdline')
     ELSE history_da' = history_da]_vars

\* a command that was not found has been recorded, and the empty line read
\* after it has not
C10_Witness ==
  /\ nread = 2
  /\ cmdline = "\n"
  /\ history_da = <<"zz\n">>
  /\ rc = EXIT_FAILURE
(***************************************************************************)
(* C11: for every builtin and every argument vector of the wrong count or  *)
(* shape for it, the handler reports a usage error, returns failure, the   *)
(* last return code becomes failure, the alias table, the history entries  *)
(* and the search path are left as they were, and the interpreter goes on  *)
(* with the next line instead of crashing or terminating.                  *)
(***************************************************************************)
NonNumeric(str) ==
  \E n \in 1..Len(str) : ~IsDigit(Ch(str, n)) /\ Ch(str, n) \notin {"+", "-", " ", "\t"}

\* an argument vector of the wrong count or shape for the builtin it names
Misuse(av) ==
  /\ Len(av) > 0
  /\ CASE av[1] = "exit" -> Len(av) > 1
       [] av[1] = "history" ->
            \/ Len(av) > 2
            \/ /\ Len(av) = 2
               /\ \/ NonNumeric(av[2])
                  \/ av[2] = "0"
                  \/ Ch(av[2], 1) = "-" /\ IsDecimal(From(av[2], 2))
       [] av[1] = "alias" ->
            \/ Len(av) = 2
            \/ Len(av) > 4
            \/ Len(av) >= 3 /\ av[3] # "="
            \/ Len(av) >= 2 /\ av[2] = ""
       [] av[1] = "unalias" -> Len(av) # 2
       [] av[1] = "which" -> Len(av) # 2
       [] av[1] = "path" -> Len(av) > 2
       [] av[1] = "cd" -> Len(av) > 2
       [] OTHER -> FALSE

\* the line just read is a single command whose own tokens are handed to a
\* builtin with a wrong argument vector that fits the argument array
MisusedBuiltinRead ==
  /\ nread' = nread + 1
  /\ ~IsPipelineLine(cmdline')
  /\ ~HeadIsAlias(cmdline', alias_hm)
  /\ Len(parseline_no_subst(cmdline').argv) <= MAX_ARGS
  /\ Misuse(parseline_no_subst(cmdline').argv)

C11_UsageErrors ==
  [][MisusedBuiltinRead
     => /\ pc' = "read"
        /\ ret' = EXIT_FAILURE
        /\ rc' = EXIT_FAILURE
        /\ err' > 0
        /\ alias_hm' = alias_hm
        /\ PATH' = PATH
        /\ SubSeq(history_da', 1, Len(history_da)) = history_da]_vars

(***************************************************************************)
(* C12: no failure outcome writes to standard output.  For a line whose    *)
(* outcome is a usage error, a resolution failure (command not found,      *)
(* which lookup miss, empty search path), a parse error or a process       *)
(* failure, nothing is written to standard output by the interpreter, and  *)
(* a failing builtin run as a pipeline segment writes nothing down the     *)
(* pipe.                                                                   *)
(***************************************************************************)
\* child k of the current pipeline runs a builtin that fails
FailingBuiltinSegment(k) ==
  /\ k <= Len(segments)
  /\ parseline_no_subst(segments[k]).argc > 0
  /\ IsBuiltin(parseline_no_subst(segments[k]).argv[1])
  /\ parseline_no_subst(segments[k]).argv[1] # "exit"
  /\ procs[k].codes # {EXIT_SUCCESS}

C12_FailuresWriteNoStdout ==
  /\ (Returned_ /\ kind = "builtin" /\ ret # EXIT_SUCCESS) => out = << >>
  /\ (Returned_ /\ kind \in {"not_found", "parse_error", "pipe_rejected",
                             "fork_failed", "pipe_failed", "wait_failed"})
     => out = << >>
  /\ \A k \in 1..Len(procs) : FailingBuiltinSegment(k) => procs[k].out = << >>

(***************************************************************************)
(* C13: executing a pipeline leaves the interpreter's alias table, search  *)
(* path, working directory and existing history entries unchanged (the     *)
(* pipeline line itself is the one entry appended), even when segments are *)
(* alias, unalias, path, cd or exit; exit as a pipeline segment never      *)
(* terminates the interpreter.  The same builtins run as a standalone      *)
(* command do change that state.                                           *)
(***************************************************************************)
InPipeline == pc \in {"spawn", "wait_last", "wait_rest"}

\* the line just read is this text and its head is not an alias
StandaloneRead(text) ==
  /\ nread' = nread + 1
  /\ cmdline' = text
  /\ ~HeadIsAlias(text, alias_hm)
  /\ kind' = "builtin"

C13_PipelineFrame ==
  [][/\ (nread' = nread + 1 /\ IsPipelineLine(cmdline'))
        => /\ alias_hm' = alias_hm
           /\ PATH' = PATH
           /\ cwd' = cwd
           /\ history_da' = Append(history_da, cmdline')
           /\ pc' # "exited"
     /\ InPipeline
        => /\ alias_hm' = alias_hm
           /\ PATH' = PATH
           /\ cwd' = cwd
           /\ history_da' = history_da
           /\ pc' \in {"spawn", "wait_last", "wait_rest", "read"}
     /\ StandaloneRead("cd /bin\n") => cwd' = "/bin"
     /\ StandaloneRead("path /home\n") => PATH' = "/home"
     /\ StandaloneRead("alias x = ls\n")
        => alias_hm' = [n \in DOMAIN alias_hm \cup {"x"} |->
                          IF n = "x" THEN "ls" ELSE alias_hm[n]]
     /\ StandaloneRead("unalias x\n") => "x" \notin DOMAIN alias_hm']_vars

\* a pipeline of cd and path has completed where a standalone cd had moved
\* the interpreter to /bin: the interpreter is still there, with its path
C13_Witness ==
  /\ Returned_
  /\ history_da = <<"cd /bin\n", "cd /home | path /home\n">>
  /\ kind = "pipeline"
  /\ Len(procs) = 2
  /\ \A k \in 1..2 : procs[k].state = "reaped"
  /\ cwd = "/bin"
  /\ PATH = DefaultPath

(***************************************************************************)
(* C14: when process creation or waiting fails (fork or pipe failing at    *)
(* any stage of a pipeline, fork failing for a standalone external         *)
(* command, waitpid failing on any child), the line is marked failed: the  *)
(* dispatcher returns failure and the last return code after the line is   *)
(* failure; on a creation failure at pipeline stage i each of the i        *)
(* siblings already spawned has been sent a termination signal; the        *)
(* interpreter goes on reading.                                            *)
(***************************************************************************)
\* waitpid was called for child k and failed
WaitFailedOn(k) == procs[k].waits > 0 /\ procs[k].state # "reaped"

CreationFailed == kind \in {"fork_failed", "pipe_failed"}

C14_ProcessFailuresMarkLineFailed ==
  /\ (/\ Returned_
      /\ \/ CreationFailed
         \/ kind = "wait_failed"
         \/ \E k \in 1..Len(procs) : WaitFailedOn(k))
     => (result = EXIT_FAILURE /\ rc = EXIT_FAILURE)
  /\ (nread > 0 /\ CreationFailed)
     => (pc \in {"read", "exited"} /\ \A k \in 1..Len(procs) : procs[k].sigterm)

(***************************************************************************)
(* C15: a standalone exit with no extra argument, typed directly or        *)
(* reached through an alias, tears the interpreter down at once with exit  *)
(* code equal to the last return code recorded before that line, and no    *)
(* later line is executed; exit with any extra argument tears nothing      *)
(* down, sets the last return code to failure, and the interpreter goes on *)
(* with the next line.                                                     *)
(***************************************************************************)
\* the argument vector a single command is run with
ExecutedVector(text, hm) ==
  IF HeadIsAlias(text, hm) THEN ExpandedVector(text, hm)
  ELSE parseline_no_subst(text).argv

\* the line just read is a standalone exit whose vectors fit the array
StandaloneExitRead ==
  /\ nread' = nread + 1
  /\ ~IsPipelineLine(cmdline')
  /\ Len(parseline_no_subst(cmdline').argv) <= MAX_ARGS
  /\ Len(ExecutedVector(cmdline', alias_hm)) \in 1..MAX_ARGS
  /\ ExecutedVector(cmdline', alias_hm)[1] = "exit"

C15_StandaloneExit ==
  [][/\ StandaloneExitRead
        => IF Len(ExecutedVector(cmdline', alias_hm)) = 1
           THEN pc' = "exited" /\ exit_code' = rc
           ELSE /\ pc' = "read"
                /\ rc' = EXIT_FAILURE
                /\ exit_code' = exit_code
     /\ pc = "exited" => (pc' = "exited" /\ nread' = nread)]_vars

\* exit reached through an alias after a command that failed
C15_Witness ==
  /\ history_da = <<"alias q = exit\n", "false\n", "q\n">>
  /\ pc = "exited"
  /\ exit_code = 1

(***************************************************************************)
(* C16: on every line without an unterminated quote the tokenizer yields   *)
(* the reference tokenization: leading and trailing whitespace skipped,    *)
(* every run of spaces and/or tabs a separator, the trailing newline a     *)
(* separator and never token content, a token that begins with a single    *)
(* quote running to the next single quote with its content verbatim.       *)
(***************************************************************************)
IsBlankChar(c) == c \in {" ", "\t", "\n"}

RECURSIVE SkipBlanks(_, _)
SkipBlanks(str, n) ==
  IF n <= Len(str) /\ IsBlankChar(Ch(str, n)) THEN SkipBlanks(str, n + 1) ELSE n

\* the position of the first blank of str at or after n, Len(str)+1 if none
RECURSIVE NextBlank(_, _)
NextBlank(str, n) ==
  IF n <= Len(str) /\ ~IsBlankChar(Ch(str, n)) THEN NextBlank(str, n + 1) ELSE n

\* the reference tokenization from position n on; bad tells that a quote is
\* never closed
RECURSIVE RefLoop(_, _, _)
RefLoop(str, n, toks) ==
  IF n > Len(str) THEN [argv |-> toks, bad |-> FALSE]
  ELSE IF Ch(str, n) = "'"
  THEN IF strchr(str, n + 1, "'") = 0
       THEN [argv |-> << >>, bad |-> TRUE]
       ELSE RefLoop(str, SkipBlanks(str, strchr(str, n + 1, "'") + 1),
                    Append(toks, SubSeq(str, n + 1, strchr(str, n + 1, "'") - 1)))
  ELSE RefLoop(str, SkipBlanks(str, NextBlank(str, n)),
               Append(toks, SubSeq(str, n, NextBlank(str, n) - 1)))

RefTokens(str) == RefLoop(str, SkipBlanks(str, 1), << >>)

\* the line just read is a single command that runs with its own tokens
OwnTokensRead ==
  /\ nread' = nread + 1
  /\ ~IsPipelineLine(cmdline')
  /\ ~HeadIsAlias(cmdline', alias_hm)
  /\ kind' \in {"blank", "builtin", "exit", "external", "not_found",
                "fork_failed"}

C16_TokenizerMatchesReference ==
  [][(OwnTokensRead /\ ~RefTokens(cmdline').bad)
     => argv' = RefTokens(cmdline').argv]_vars

(***************************************************************************)
(* C17: tokenizing a line in which a token opens with a single quote that  *)
(* is never closed yields an argument vector of count 0 and a diagnostic,  *)
(* never a crash; the dispatcher abandons the whole line (no builtin runs, *)
(* no process is created, alias table and search path unchanged), the last *)
(* return code is failure, and the next line is processed normally.        *)
(***************************************************************************)
UnterminatedQuoteRead ==
  /\ nread' = nread + 1
  /\ ~IsPipelineLine(cmdline')
  /\ RefTokens(cmdline').bad

C17_UnterminatedQuote ==
  [][UnterminatedQuoteRead
     => /\ pc' = "read"
        /\ kind' = "parse_error"
        /\ argv' = << >>
        /\ err' > 0
        /\ out' = << >>
        /\ procs' = << >>
        /\ rc' = EXIT_FAILURE
        /\ alias_hm' = alias_hm
        /\ PATH' = PATH
        /\ cwd' = cwd]_vars

(***************************************************************************)
(* C18: the argument count produced by the tokenizer never exceeds         *)
(* MAX_ARGS and nothing is written past index MAX_ARGS of the caller's     *)
(* vector: a line, or an alias-expanded line, with more than MAX_ARGS      *)
(* tokens is a parse error that yields nothing to execute.                 *)
(***************************************************************************)
\* the line just read is a single command with more than MAX_ARGS tokens,
\* as typed or after alias expansion
TooManyTokensRead ==
  /\ nread' = nread + 1
  /\ ~IsPipelineLine(cmdline')
  /\ ~RefTokens(cmdline').bad
  /\ \/ parseline_no_subst(cmdline').argc > MAX_ARGS
     \/ /\ HeadIsAlias(cmdline', alias_hm)
        /\ Len(ExpandedVector(cmdline', alias_hm)) > MAX_ARGS

C18_ArgumentBound ==
  [][/\ Len(argv') <= MAX_ARGS
     /\ TooManyTokensRead
        => /\ pc' = "read"
           /\ kind' = "parse_error"
           /\ procs' = << >>]_vars

(***************************************************************************)
(* C19: which NAME resolves in the order alias, builtin, search-path       *)
(* executable and reports only the first category that matches: an alias   *)
(* is reported as the alias even if the name is also a builtin or an       *)
(* executable, a builtin that is no alias as a builtin even if an          *)
(* executable of that name exists, and which fails only when none of the   *)
(* three matches.  which never changes the alias table, the history or the *)
(* search path.                                                            *)
(***************************************************************************)
BuiltinNames == {"exit", "alias", "unalias", "which", "path", "cd", "history"}

\* the line just read is which with one name, typed directly
WhichRead ==
  /\ nread' = nread + 1
  /\ ~IsPipelineLine(cmdline')
  /\ ~HeadIsAlias(cmdline', alias_hm)
  /\ parseline_no_subst(cmdline').argc = 2
  /\ parseline_no_subst(cmdline').argv[1] = "which"

\* what which has to report for name in the current state, and its status
WhichExpected(name) ==
  IF name \in DOMAIN alias_hm
  THEN [out |-> <<name \o ": alias " \o alias_hm[name]>>, ret |-> EXIT_SUCCESS]
  ELSE IF name \in BuiltinNames
  THEN [out |-> <<name \o ": builtin">>, ret |-> EXIT_SUCCESS]
  ELSE IF WhichPath(name, State) # ""
  THEN [out |-> <<name \o ": found at " \o WhichPath(name, State)>>,
        ret |-> EXIT_SUCCESS]
  ELSE [out |-> <<name \o ": not found">>, ret |-> EXIT_FAILURE]

UnaliasRead ==
  /\ nread' = nread + 1
  /\ ~IsPipelineLine(cmdline')
  /\ ~HeadIsAlias(cmdline', alias_hm)
  /\ parseline_no_subst(cmdline').argc = 2
  /\ parseline_no_subst(cmdline').argv[1] = "unalias"

\* the table hm without the entry of name
Without(hm, name) == [n \in DOMAIN hm \ {name} |-> hm[n]]

\* the line just read is a single command whose head is in no alias entry
PlainHeadRead ==
  /\ nread' = nread + 1
  /\ ~IsPipelineLine(cmdline')
  /\ parseline_no_subst(cmdline').argc > 0
  /\ parseline_no_subst(cmdline').argv[1] \notin DOMAIN alias_hm
  /\ kind' # "crash"

C20_UnaliasIdempotent ==
  [][/\ UnaliasRead
        => /\ pc' = "read"
           /\ ret' = EXIT_SUCCESS
           /\ rc' = EXIT_SUCCESS
           /\ alias_hm' = Without(alias_hm, parseline_no_subst(cmdline').argv[2])
           /\ (cmdline = cmdline' /\ kind = "builtin" /\ ret = EXIT_SUCCESS)
              => alias_hm' = alias_hm
     /\ PlainHeadRead => argv' = parseline_no_subst(cmdline').argv]_vars

\* two aliases were defined and one of them removed: the other one is kept
C20_Witness ==
  /\ history_da = <<"alias ls = true\n", "alias cd = ls\n", "unalias ls\n">>
  /\ DOMAIN alias_hm = {"cd"}
  /\ alias_hm["cd"] = "ls"
  /\ rc = EXIT_SUCCESS

(***************************************************************************)
(* C23: the path step of which agrees with the resolver used to execute    *)
(* commands.  For every name that is neither an alias nor a builtin, which *)
(* NAME reports an executable path exactly when the dispatcher would       *)
(* resolve NAME for execution, and reports that path; only names that      *)
(* start with / or ./ are checked directly, every other name (.tool and .. *)
(* included) is looked up in the directories of the search path.           *)
(***************************************************************************)
\* the line just read is which with one name that is no alias and no builtin
WhichPathRead ==
  /\ WhichRead
  /\ parseline_no_subst(cmdline').argv[2] \notin DOMAIN alias_hm
  /\ parseline_no_subst(cmdline').argv[2] \notin BuiltinNames

\* what which has to report for a name the dispatcher resolves to resolved
ResolverReport(name, resolved) ==
  IF resolved # "" THEN <<name \o ": found at " \o resolved>>
  ELSE <<name \o ": not found">>

C23_WhichAgreesWithResolver ==
  [][WhichPathRead
     => out' = ResolverReport(parseline_no_subst(cmdline').argv[2],
                 find_executable_path(cwd, PATH,
                                      parseline_no_subst(cmdline').argv[2]))]_vars

(***************************************************************************)
(* C25: whenever the history handler runs (typed directly, reached through *)
(* an alias, or inside a pipeline child) the history container holds at    *)
(* least one entry and its last entry is the line that caused the          *)
(* invocation; hence the unsigned loop bound size - 1 of da_print never    *)
(* wraps around on an empty container and the listing never reads past the *)
(* stored entries.                                                         *)
(***************************************************************************)
\* the line just read made the interpreter itself call the history handler
HistoryHandlerRuns ==
  /\ nread' = nread + 1
  /\ kind' \in {"builtin", "crash"}
  /\ Len(argv') > 0
  /\ argv'[1] = "history"

\* the child just forked for a pipeline segment calls the history handler
HistoryChildForked ==
  /\ Len(procs') = Len(procs) + 1
  /\ Len(procs') <= Len(segments')
  /\ parseline_no_subst(segments'[Len(procs')]).argc > 0
  /\ parseline_no_subst(segments'[Len(procs')]).argv[1] = "history"

\* the last entry of the container is the line being executed
LastEntryIsCurrentLine(da, line) == Len(da) > 0 /\ da[Len(da)] = line

C25_HistoryHoldsInvokingLine ==
  [][/\ HistoryHandlerRuns => LastEntryIsCurrentLine(history_da', cmdline')
     /\ HistoryChildForked => LastEntryIsCurrentLine(history_da', cmdline')]_vars

(***************************************************************************)
(* C21: for a validated pipeline line with N pipe-separated segments,      *)
(* exactly N processes are created, one per segment of the line and in     *)
(* left-to-right segment order, whatever N is; segment 0 reads the         *)
(* interpreter's own standard input, segment i > 0 reads the read end of   *)
(* the pipe whose write end is the standard output of segment i-1, and     *)
(* segment N-1 writes to the interpreter's own standard output.            *)
(***************************************************************************)
\* execute_pipeline has got past its last fork on the current line
AllSpawned == nread > 0 /\ kind = "pipeline" /\ pc # "spawn"

\* child k reads the pipe that child k-1 writes
Chained(ps, k) ==
  /\ ps[k].in_fd # STDIN_FILENO
  /\ ps[k].in_fd[3] = "r"
  /\ ps[k - 1].out_fd = <<ps[k].in_fd[1], ps[k].in_fd[2], "w">>

\* the children ps are the segments segs of the line, in order and wired
\* from the interpreter's input to its output
OnePerSegment(ps, segs) ==
  /\ Len(ps) = Len(segs)
  /\ \A k \in 1..Len(segs) :
       parseline_no_subst(ps[k].cmd).argv = FinalArgv(segs[k], alias_hm)
  /\ ps[1].in_fd = STDIN_FILENO
  /\ ps[Len(ps)].out_fd = STDOUT_FILENO
  /\ \A k \in 2..Len(ps) : Chained(ps, k)

C21_OneProcessPerSegment ==
  AllSpawned => OnePerSegment(procs, AllSegments(cmdline, 1))

(***************************************************************************)
(* C22: execute_pipeline leaks no pipe descriptor in the parent.  On every *)
(* return path (normal completion, pipe() failing at stage i, fork()       *)
(* failing at stage i, fork() failing for the last segment) every pipe end *)
(* the parent opened for the pipeline has been closed in the parent when   *)
(* the function returns, so the interpreter has as many descriptors open   *)
(* after a line as before it.                                              *)
(***************************************************************************)
C22_NoDescriptorLeak ==
  pc \in {"read", "exited"} => fds = {}

(***************************************************************************)
(* C24: pipeline collection cannot deadlock on stray pipe ends.  Once all  *)
(* segments are spawned, each pipe's write end is open only in the segment *)
(* that writes to it and each read end only in the segment that reads it   *)
(* (the parent and all other segments hold no copy), so that, every        *)
(* segment program terminating once it sees end-of-input on its standard   *)
(* input or a broken pipe on its standard output, every segment eventually *)
(* terminates and execute_pipeline eventually returns, whatever the order  *)
(* in which the segments finish (the parent waits for the last segment     *)
(* first, then for segments 0..N-2).                                       *)
(***************************************************************************)
\* child c has descriptor d among its descriptors
Holds(c, d) ==
  procs[c].in_fd = d \/ procs[c].out_fd = d \/ d \in procs[c].held

\* d, an end of the pipe made in iteration d[2], is where it belongs in
\* child c: the write end the standard output of segment d[2], the read end
\* the standard input of segment d[2] + 1
Belongs(c, d) ==
  IF d[3] = "w" THEN c = d[2] + 1 /\ procs[c].out_fd = d /\ procs[c].in_fd # d
                     /\ d \notin procs[c].held
  ELSE c = d[2] + 2 /\ procs[c].in_fd = d /\ procs[c].out_fd # d
       /\ d \notin procs[c].held

\* the ends of the pipes made for the current line
PipeEnds == {<<nread, k, e>> : k \in 0..(MAX_ARGS - 1), e \in {"r", "w"}}

OwnedEnds ==
  AllSpawned =>
    \A d \in PipeEnds :
      /\ d \notin fds
      /\ \A c \in 1..Len(procs) : Holds(c, d) => Belongs(c, d)

\* every child of the current pipeline has terminated and been collected
AllCollected ==
  pc = "read" /\ \A c \in 1..Len(procs) : procs[c].state = "reaped"

C24_NoStrayPipeEnds ==
  /\ []OwnedEnds
  /\ (pc = "wait_last") ~> (pc = "read")
  /\ [](pc = "wait_last" /\ faults = MaxFaults => <>AllCollected)

\* a pipeline of three segments has been collected: the middle segment read
\* what the first wrote and wrote what the last read, and the interpreter
\* holds no pipe end
C24_Witness ==
  /\ pc = "read"
  /\ kind = "pipeline"
  /\ Len(procs) = 3
  /\ \A c \in 1..3 : procs[c].state = "reaped"
  /\ procs[2].in_fd = <<nread, 0, "r">>
  /\ procs[2].out_fd = <<nread, 1, "w">>
  /\ procs[1].out_fd = <<nread, 0, "w">>
  /\ procs[3].in_fd = <<nread, 1, "r">>
  /\ \A c \in 1..3 : procs[c].held = {}
  /\ fds = {}
====
